---- MODULE Spec2Model ----
(***************************************************************************)
(* Model of imod.prepare.voxelize: the Voxelizer object (construction,     *)
(* lazy plan building, the voxelize call) and the _voxelize kernel.        *)
(*                                                                         *)
(* Numbers.  Lengths (tops, bottoms, centres, spacings, edges, overlaps)   *)
(* are whole counts of a unit of 1e-8, the absolute tolerance of           *)
(* np.allclose, so that its comparisons are exact on integers; every       *)
(* spacing used is even, so that half a spacing is again a whole count.    *)
(* Lengths stay below 2^31.  The layered grids given to the kernel are a   *)
(* few units thick (what the kernel computes does not depend on the        *)
(* scale); the axes that probe the tolerances have spacings of 1e8 units   *)
(* and the like.  Cell values are floats and are kept as reduced fractions *)
(* <<num, den>> with den > 0; NaN is the pair <<0, 0>>.  Python's 0-based  *)
(* indices are 1-based here.                                               *)
(***************************************************************************)
EXTENDS Integers, Sequences, FiniteSets, TLC

\* ------------------------------------------------------------------ floats

Abs(n) == IF n < 0 THEN -n ELSE n

RECURSIVE GCD(_, _)
GCD(a, b) == IF b = 0 THEN a ELSE GCD(b, a % b)

NaN == <<0, 0>>

isnan(x) == x[2] = 0

\* The float n/d (d # 0), reduced.
Frac(n, d) ==
    LET g == GCD(Abs(n), Abs(d))
        s == IF d < 0 THEN -1 ELSE 1
    IN  <<(s * n) \div g, (s * d) \div g>>

Num(n) == <<n, 1>>

FAdd(a, b) == IF isnan(a) \/ isnan(b) THEN NaN
              ELSE Frac(a[1] * b[2] + b[1] * a[2], a[2] * b[2])

FMul(a, b) == IF isnan(a) \/ isnan(b) THEN NaN ELSE Frac(a[1] * b[1], a[2] * b[2])

\* a / b as floats: 0/0 is NaN (a zero divisor with a non-zero dividend does
\* not occur: every method guards its division).
FDiv(a, b) == IF isnan(a) \/ isnan(b) \/ b[1] = 0 THEN NaN
              ELSE Frac(a[1] * b[2], a[2] * b[1])

FLess(a, b) == a[1] * b[2] < b[1] * a[2]

Min2(a, b) == IF b < a THEN b ELSE a

Max2(a, b) == IF b > a THEN b ELSE a

\* np.zeros(n)
Zeros(n) == [k \in 1..n |-> 0]

FZeros(n) == [k \in 1..n |-> Num(0)]

\* ------------------------------------------------- imod.prepare.common

\* The keys of common.METHODS: the catalog of named reduction methods.
CommonMETHODS ==
    {"mean", "harmonic_mean", "geometric_mean", "sum", "minimum", "maximum",
     "mode", "median", "conductance", "max_overlap", "nearest", "multilinear"}

\* common._overlap(a, b) for a = (a0, a1), b = (b0, b1)
_overlap(a, b) == Max2(0, Min2(a[2], b[2]) - Max2(a[1], b[1]))

RECURSIVE WSum(_, _, _)
\* sum of w[k] over the slots k <= n whose value is not NaN
WSum(values, weights, n) ==
    IF n = 0 THEN 0
    ELSE WSum(values, weights, n - 1)
         + (IF isnan(values[n]) THEN 0 ELSE weights[n])

RECURSIVE VWSum(_, _, _)
\* sum of v[k] * w[k] over the slots k <= n whose value is not NaN
VWSum(values, weights, n) ==
    IF n = 0 THEN Num(0)
    ELSE FAdd(VWSum(values, weights, n - 1),
              IF isnan(values[n]) THEN Num(0)
              ELSE FMul(values[n], Num(weights[n])))

Valid(values) == {k \in 1..Len(values) : ~isnan(values[k])}

\* weighted arithmetic mean; NaN without a valid contribution
mean(values, weights) ==
    FDiv(VWSum(values, weights, Len(values)), Num(WSum(values, weights, Len(values))))

\* the entries that count for sum and max_overlap: a value, and some overlap
Included(values, weights) == {k \in Valid(values) : weights[k] > 0}

RECURSIVE VSum(_, _, _)
VSum(values, weights, n) ==
    IF n = 0 THEN Num(0)
    ELSE FAdd(VSum(values, weights, n - 1),
              IF n \in Included(values, weights) THEN values[n] ELSE Num(0))

\* unweighted total; the overlap only decides what is included
sum(values, weights) ==
    IF Included(values, weights) = {} THEN NaN
    ELSE VSum(values, weights, Len(values))

minimum(values, weights) ==
    IF Valid(values) = {} THEN NaN
    ELSE values[CHOOSE k \in Valid(values) :
                   \A m \in Valid(values) : ~FLess(values[m], values[k])]

maximum(values, weights) ==
    IF Valid(values) = {} THEN NaN
    ELSE values[CHOOSE k \in Valid(values) :
                   \A m \in Valid(values) : ~FLess(values[k], values[m])]

\* value of the contribution with the greatest weight, the first one on a tie
max_overlap(values, weights) ==
    IF Included(values, weights) = {} THEN NaN
    ELSE values[CHOOSE k \in Included(values, weights) :
                   \A m \in Included(values, weights) :
                       weights[m] < weights[k] \/ (weights[m] = weights[k] /\ k <= m)]

\* A function of the caller: def first_value(values, weights): return values[0]
first_value(values, weights) == values[1]

\* The methods whose arithmetic stays within the fractions.
Computable == {"mean", "sum", "minimum", "maximum", "max_overlap", "first_value"}

\* Calling the (compiled) method on the two buffers.
CallMethod(method, values, weights) ==
    CASE method = "mean" -> mean(values, weights)
      [] method = "sum" -> sum(values, weights)
      [] method = "minimum" -> minimum(values, weights)
      [] method = "maximum" -> maximum(values, weights)
      [] method = "max_overlap" -> max_overlap(values, weights)
      [] method = "first_value" -> first_value(values, weights)

\* ------------------------------------------------------------ _voxelize

\* A kernel that forgets the test of line 45.
ContributesAlways(overlap) == TRUE

\* line 45: a layer enters the buffers unless its overlap is 0
Contributes(overlap) == overlap # 0

\* A kernel that records twice the overlap.
DoubleWeight(overlap) == 2 * overlap

\* A kernel that records a unit weight instead of the overlap.
UnitWeight(overlap) == 1

\* line 50: the weight recorded for a contributing layer
Weight(overlap) == overlap

\* line 54: the two arguments of the call method(values, weights)
MethodArgs(values, weights, count) == <<values, weights>>

\* A reset that leaves the last written entry: buf[:count - 1] = 0.
ResetBelowCount(buf, count, zero) ==
    [k \in 1..Len(buf) |-> IF k < count THEN zero ELSE buf[k]]

\* A kernel without the reset.
KeepBuffer(buf, count, zero) == buf

\* lines 56-57: buf[:count] = 0
ResetBuffer(buf, count, zero) ==
    [k \in 1..Len(buf) |-> IF k <= count THEN zero ELSE buf[k]]

RECURSIVE Sweep(_, _, _, _, _, _, _)
\* lines 40-51: the loop over the source layers jj of one column for the
\* voxel [zb, zt]; st = [count, has_value, values, weights].
Sweep(jj, st, vals, tops, bots, zb, zt) ==
    IF jj > Len(vals) THEN st
    ELSE LET overlap == _overlap(<<bots[jj], tops[jj]>>, <<zb, zt>>)
         IN  IF ~Contributes(overlap)
             THEN Sweep(jj + 1, st, vals, tops, bots, zb, zt)
             ELSE Sweep(jj + 1,
                        [count |-> st.count + 1,
                         has_value |-> TRUE,
                         values |-> [st.values EXCEPT ![st.count + 1] = vals[jj]],
                         weights |-> [st.weights EXCEPT
                                         ![st.count + 1] = Weight(overlap)]],
                        vals, tops, bots, zb, zt)

\* column (i, j) of a (layer, y, x) array
Column(a, i, j) == [l \in 1..Len(a) |-> a[l][i][j]]

\* lines 29-57 for one voxel ii of one column (i, j).  k is the state of the
\* kernel: the output array, the two shared buffers, and two logs: every call
\* of the method with its arguments, and the buffers at the start of every
\* sweep.  dst_z holds no NaN (it is computed from finite centres), so the
\* test of line 32 never skips a voxel.
Voxel(k, src, src_top, src_bot, dst_z, method, i, j, ii) ==
    LET z0 == dst_z[ii]
        z1 == dst_z[ii + 1]
        zb == Min2(z0, z1)
        zt == Max2(z0, z1)
        st == Sweep(1, [count |-> 0, has_value |-> FALSE,
                        values |-> k.values, weights |-> k.weights],
                    Column(src, i, j), Column(src_top, i, j),
                    Column(src_bot, i, j), zb, zt)
        args == MethodArgs(st.values, st.weights, st.count)
        seen == [k EXCEPT !.sweeps = Append(@, [ii |-> ii, i |-> i, j |-> j,
                                                 values |-> k.values,
                                                 weights |-> k.weights])]
    IN  IF st.has_value
        THEN [seen EXCEPT
                !.dst[ii][i][j] = CallMethod(method, args[1], args[2]),
                !.values = ResetBuffer(st.values, st.count, Num(0)),
                !.weights = ResetBuffer(st.weights, st.count, 0),
                !.calls = Append(@, [ii |-> ii, i |-> i, j |-> j,
                                     values |-> args[1], weights |-> args[2]])]
        ELSE [seen EXCEPT !.values = st.values, !.weights = st.weights]

RECURSIVE KernelLoop(_, _, _, _, _, _, _, _)
\* lines 23-29: for i in range(nrow): for j in range(ncol): for ii in range(nz);
\* the iterations done so far are the sweeps logged in k.
KernelLoop(k, src, src_top, src_bot, dst_z, method, nrow, ncol) ==
    LET nz == Len(dst_z) - 1
        n == Len(k.sweeps)
    IN  IF n >= nrow * ncol * nz THEN k
        ELSE KernelLoop(Voxel(k, src, src_top, src_bot, dst_z, method,
                              (n \div (ncol * nz)) + 1,
                              ((n \div nz) % ncol) + 1,
                              (n % nz) + 1),
                        src, src_top, src_bot, dst_z, method, nrow, ncol)

\* _voxelize(src, dst, src_top, src_bot, dst_z, method): the final kernel state
\* (its field dst is the returned array).
_voxelize(src, dst, src_top, src_bot, dst_z, method) ==
    LET nlayer == Len(src)
        nrow == Len(src[1])
        ncol == Len(src[1][1])
    IN  KernelLoop([dst |-> dst, values |-> FZeros(nlayer), weights |-> Zeros(nlayer),
                    calls |-> <<>>, sweeps |-> <<>>],
                   src, src_top, src_bot, dst_z, method, nrow, ncol)

\* ------------------------------------------------- errors, labelled arrays

\* An exception: its class and the parts of its message; NoError is "nothing
\* was raised".
NoError == [type |-> "", msg |-> <<>>]

Raise(type, msg) == [type |-> type, msg |-> msg]

InSeq(x, s) == \E n \in 1..Len(s) : s[n] = x

Reverse(s) == [n \in 1..Len(s) |-> s[Len(s) + 1 - n]]

\* A DataArray is [dims, coords, values]: coords is the ordered mapping of its
\* coordinates, each [k, dims, vals]; a scalar coordinate has dims <<>> and
\* one value.
HasCoord(da, k) == \E n \in 1..Len(da.coords) : da.coords[n].k = k

CoordOf(da, k) == da.coords[CHOOSE n \in 1..Len(da.coords) : da.coords[n].k = k]

\* da[k] = value: a new coordinate is appended, an existing one replaced
SetCoord(da, c) ==
    IF HasCoord(da, c.k)
    THEN [da EXCEPT !.coords = [n \in 1..Len(@) |-> IF @[n].k = c.k THEN c ELSE @[n]]]
    ELSE [da EXCEPT !.coords = Append(@, c)]

\* Variable.equals: same dimensions and same values
equals(v1, v2) == v1.dims = v2.dims /\ v1.vals = v2.vals

\* np.diff
diff(x) == [n \in 1..(Len(x) - 1) |-> x[n + 1] - x[n]]

\* np.allclose(a, b, rtol, atol=1e-8): abs(a[n] - b) <= atol + rtol * abs(b)
\* for every n.  atol is one unit; rb is rtol * abs(b) in units, and since the
\* left-hand side is a whole count, only the whole part of rb matters.
allclose(a, b, rb) == \A n \in 1..Len(a) : Abs(a[n] - b) <= 1 + rb

\* rtol * abs(b) for the default rtol = 1e-5 (line 192 passes no tolerance)
DefaultRtol(b) == Abs(b) \div 100000

\* rtol * abs(dx) for rtol = atolx = abs(1.0e-6 * dx), lines 76-77: atolx is
\* the third positional argument of np.allclose, which is rtol.  In units
\* this is dx * dx / 1e14, computed here without leaving 32 bits
\* (abs(dx) <= 4e8).
AtolxAsRtol(dx) ==
    LET a == Abs(dx) \div 10000
        r == Abs(dx) % 10000
    IN  (a * a + (2 * a * r + (r * r) \div 10000) \div 10000) \div 1000000

\* common._check_monotonic(dxs, dim): the spacings are all positive or all
\* negative
_check_monotonic(dxs, dim) ==
    IF (\A n \in 1..Len(dxs) : dxs[n] > 0) # (\A n \in 1..Len(dxs) : dxs[n] < 0)
    THEN NoError
    ELSE Raise("ValueError", <<dim, "is not only increasing or only decreasing">>)

RECURSIVE cumsum(_, _)
\* x0 + np.cumsum(dxs)[n - 1], for n = 0 .. Len(dxs)
cumsum(dxs, n) == IF n = 0 THEN 0 ELSE cumsum(dxs, n - 1) + dxs[n]

\* Edges that start at the first centre.
EdgesFromCentre(x, dxs) ==
    [n \in 1..(Len(dxs) + 1) |-> x[1] + cumsum(dxs, n - 1)]

\* Edges that follow the sign of the spacings as they were given.
EdgesSigned(x, dxs) ==
    [n \in 1..(Len(dxs) + 1) |-> x[1] - (dxs[1] \div 2) + cumsum(dxs, n - 1)]

\* lines 84-95 of _coord: the edges from the centres x and the spacings dxs
Edges(x, dxs) ==
    LET a == [n \in 1..Len(dxs) |-> Abs(dxs[n])]
        s == IF Len(x) > 1 /\ x[2] < x[1] THEN [n \in 1..Len(a) |-> -a[n]] ELSE a
        x0 == x[1] - (s[1] \div 2)
    IN  [n \in 1..(Len(s) + 1) |-> x0 + cumsum(s, n - 1)]

\* _coord(da, dim): [err, val]; val is the edge array when nothing is raised.
_coord(da, dim) ==
    LET delta_dim == "d" \o dim
        x == CoordOf(da, dim).vals
    IN  IF HasCoord(da, delta_dim)
        THEN LET dx == CoordOf(da, delta_dim).vals
                 dxs == IF CoordOf(da, delta_dim).dims = <<>> \/ Len(dx) = 1
                        THEN [n \in 1..Len(x) |-> dx[1]]
                        ELSE dx
                 chk == _check_monotonic(dxs, dim)
             IN  IF chk # NoError THEN [err |-> chk, val |-> <<>>]
                 ELSE [err |-> NoError, val |-> Edges(x, dxs)]
        ELSE LET dxs == diff(x)
             IN  IF Len(dxs) = 0
                 THEN [err |-> Raise("IndexError", <<"index 0 is out of bounds">>),
                       val |-> <<>>]
                 ELSE IF ~allclose(dxs, dxs[1], AtolxAsRtol(dxs[1]))
                 THEN [err |-> Raise("ValueError",
                                     <<"DataArray has to be equidistant along", dim,
                                       "or cellsizes must be provided as a coordinate">>),
                       val |-> <<>>]
                 ELSE [err |-> NoError,
                       val |-> Edges(x, [n \in 1..Len(x) |-> dxs[1]])]

\* ----------------------------------------------------------- imod.util

\* An is_divisor that looks at the first cell size only.
is_divisor_first(numerator, denominator) ==
    LET d == Abs(denominator)
        rem == Abs(numerator[1]) % d
    IN  Min2(rem, d - rem) <= 1 + DefaultRtol(d)

\* util.is_divisor(numerator, denominator): every cell size is a whole
\* multiple of the divisor within tolerance, whatever the signs.  The
\* remainder of the sizes' magnitudes is close to 0 or to the divisor's
\* magnitude, close as np.isclose has it by default.
is_divisor(numerator, denominator) ==
    LET d == Abs(denominator)
    IN  \A n \in 1..Len(numerator) :
            LET rem == Abs(numerator[n]) % d
            IN  Min2(rem, d - rem) <= 1 + DefaultRtol(d)

\* -a for an array a
Neg(a) == [n \in 1..Len(a) |-> -a[n]]

\* ---------------------------------------------------------- Voxelizer

\* A registry from which nothing was popped.
METHODS_Unrestricted == CommonMETHODS

\* A registry from which "mode" was popped as well.
METHODS_WithoutMode ==
    CommonMETHODS \ {"conductance", "nearest", "multilinear", "mode"}

\* lines 9-13: the registry of the Voxelizer
METHODS == CommonMETHODS \ {"conductance", "nearest", "multilinear"}

\* common._get_method(method, methods): a name is looked up in the registry,
\* a function is taken as it is.  [err, method].
_get_method(method, methods) ==
    IF method.kind = "callable" THEN [err |-> NoError, method |-> method.name]
    ELSE IF method.name \in methods THEN [err |-> NoError, method |-> method.name]
    ELSE [err |-> Raise("ConfigurationError", <<"Invalid method", method.name>>),
          method |-> ""]

\* A voxelize that builds its plan on every call.
AlwaysBuild(first_call) == TRUE

\* line 209: whether this call builds the plan
NeedsPlan(first_call) == first_call

\* A plan that is the one of "mean" whatever the method.
PlanOfMean(method) == "mean"

\* lines 151-157: the plan stored in self._voxelize, a closure over the
\* compiled method ("" stands for an attribute that was never set)
CompiledPlan(method) == method

\* An if-body that clears _first_call before it stores the plan.
FlagBeforePlan(n, s) ==
    IF n = 1 THEN [s EXCEPT !._first_call = FALSE]
    ELSE [s EXCEPT !._voxelize = s.method]

\* lines 210-211, the body of the if: the instance after its n-th statement,
\* first the plan is stored, then _first_call is cleared
FirstCallBody(n, s) ==
    IF n = 1 THEN [s EXCEPT !._voxelize = CompiledPlan(s.method)]
    ELSE [s EXCEPT !._first_call = FALSE]

\* lines 184-188: "z" is a dimension of like, or a coordinate on "layer"
CheckZ(like) ==
    IF ~InSeq("z", like.dims) /\ InSeq("layer", like.dims)
    THEN IF ~HasCoord(like, "z") THEN Raise("KeyError", <<"z">>)
         ELSE IF CoordOf(like, "z").dims # <<"layer">>
              THEN Raise("ValueError", <<"z has to be given in like coordinates">>)
              ELSE NoError
    ELSE NoError

\* lines 189-197: without a "dz" the z centres have to be equidistant, and
\* like gets the spacing as its "dz".  [err, like].
CheckDz(like) ==
    IF HasCoord(like, "dz") THEN [err |-> NoError, like |-> like]
    ELSE IF ~HasCoord(like, "z") THEN [err |-> Raise("KeyError", <<"z">>), like |-> like]
    ELSE LET dzs == diff(CoordOf(like, "z").vals)
         IN  IF Len(dzs) = 0
             THEN [err |-> Raise("IndexError", <<"index 0 is out of bounds">>),
                   like |-> like]
             ELSE IF ~allclose(dzs, dzs[1], DefaultRtol(dzs[1]))
             THEN [err |-> Raise("ValueError",
                                 <<"dz has to be given as a coordinate">>),
                   like |-> like]
             ELSE [err |-> NoError,
                   like |-> SetCoord(like, [k |-> "dz", dims |-> <<>>,
                                            vals |-> <<dzs[1]>>])]

\* A check that looks at the dimensions of source only.
CheckDimsSourceOnly(top, bottom, source) ==
    IF source.dims = <<"layer", "y", "x">> THEN NoError
    ELSE Raise("ValueError",
               <<"Dimensions have to be exactly layer, y, x. Got instead">>
               \o source.dims)

\* lines 198-203: top, bottom and source have dimensions (layer, y, x)
CheckDims(top, bottom, source) ==
    LET das == <<top, bottom, source>>
        bad == {n \in 1..3 : das[n].dims # <<"layer", "y", "x">>}
    IN  IF bad = {} THEN NoError
        ELSE Raise("ValueError",
                   <<"Dimensions have to be exactly layer, y, x. Got instead">>
                   \o das[CHOOSE n \in bad : \A m \in bad : n <= m].dims)

\* lines 205-207 for one da: the coordinates of top and da, paired in the
\* order in which each array stores them
CoordMismatch(top, da) ==
    {n \in 1..Min2(Len(top.coords), Len(da.coords)) :
        ~equals(top.coords[n], da.coords[n])}

\* lines 204-207
CheckCoords(top, bottom, source) ==
    LET first(da) == top.coords[CHOOSE n \in CoordMismatch(top, da) :
                                   \A m \in CoordMismatch(top, da) : n <= m].k
    IN  IF CoordMismatch(top, bottom) # {}
        THEN Raise("ValueError", <<"Input coordinates do not match along", first(bottom)>>)
        ELSE IF CoordMismatch(top, source) # {}
        THEN Raise("ValueError", <<"Input coordinates do not match along", first(source)>>)
        ELSE NoError

\* lines 183-207, the checks on the inputs: [err, like], like being the
\* template as the checks leave it.
Validate(a) ==
    LET e1 == CheckZ(a.like)
        r2 == CheckDz(a.like)
        e3 == CheckDims(a.top, a.bottom, a.source)
        e4 == CheckCoords(a.top, a.bottom, a.source)
    IN  IF e1 # NoError THEN [err |-> e1, like |-> a.like]
        ELSE IF r2.err # NoError THEN r2
        ELSE IF e3 # NoError THEN [err |-> e3, like |-> r2.like]
        ELSE [err |-> e4, like |-> r2.like]

\* like["z"]: the coordinate with the coordinates of like that lie along it
LikeZ(like) ==
    LET z == CoordOf(like, "z")
        keep == SelectSeq(like.coords,
                          LAMBDA c : \A n \in 1..Len(c.dims) : InSeq(c.dims[n], z.dims))
    IN  [dims |-> z.dims, coords |-> keep, values |-> z.vals]

\* like_z.isel(z=slice(None, None, -1))
FlipZ(da) ==
    [da EXCEPT !.coords = [n \in 1..Len(@) |->
                              IF @[n].dims = <<"z">>
                              THEN [@[n] EXCEPT !.vals = Reverse(@)] ELSE @[n]],
               !.values = Reverse(@)]

is_monotonic_increasing(x) == \A n \in 1..(Len(x) - 1) : x[n] <= x[n + 1]

\* Edges of a decreasing template left in increasing order (no [::-1]).
DstZUnreversed(like) ==
    IF ~HasCoord(like, "z") THEN [err |-> Raise("KeyError", <<"z">>), val |-> <<>>]
    ELSE LET like_z == LikeZ(like)
         IN  IF like_z.dims # <<"z">>
             THEN [err |-> Raise("KeyError", <<"z">>), val |-> <<>>]
             ELSE IF ~is_monotonic_increasing(like_z.values)
             THEN _coord(FlipZ(like_z), "z")
             ELSE _coord(like_z, "z")

\* lines 213-218: the voxel edges dst_z, in the order of like's z. [err, val].
DstZ(like) ==
    IF ~HasCoord(like, "z") THEN [err |-> Raise("KeyError", <<"z">>), val |-> <<>>]
    ELSE LET like_z == LikeZ(like)
         IN  IF like_z.dims # <<"z">>
             THEN [err |-> Raise("KeyError", <<"z">>), val |-> <<>>]
             ELSE IF ~is_monotonic_increasing(like_z.values)
             THEN LET c == _coord(FlipZ(like_z), "z")
                  IN  [err |-> c.err, val |-> Reverse(c.val)]
             ELSE _coord(like_z, "z")

\* np.full(dst_shape, np.nan)
FullNaN(nz, nrow, ncol) == [ii \in 1..nz |-> [i \in 1..nrow |-> [j \in 1..ncol |-> NaN]]]

NoResult(err) == [err |-> err, dst |-> <<>>, calls |-> <<>>, sweeps |-> <<>>]

\* lines 213-236 with the plan read from self._voxelize:
\* [err, dst, calls, sweeps].
RunPlan(a, plan) ==
    LET z == DstZ(a.like)
        src == a.source.values
    IN  IF z.err # NoError THEN NoResult(z.err)
        ELSE IF ~HasCoord(a.source, "y") THEN NoResult(Raise("KeyError", <<"y">>))
        ELSE IF ~HasCoord(a.source, "x") THEN NoResult(Raise("KeyError", <<"x">>))
        ELSE IF plan = ""
        THEN NoResult(Raise("AttributeError", <<"_voxelize">>))
        ELSE LET k == _voxelize(src,
                                FullNaN(Len(CoordOf(a.like, "z").vals),
                                        Len(src[1]), Len(src[1][1])),
                                a.top.values, a.bottom.values, z.val, plan)
             IN  [err |-> NoError, dst |-> k.dst, calls |-> k.calls,
                  sweeps |-> k.sweeps]

\* ------------------------------------------------------ imod.flow.pkgbase

\* Keys of the dictionaries of values: a string is kept as the sequence of
\* its characters, a layer number as it is.
StrKey(chars) == [str |-> chars]

IntKey(n) == [int |-> n]

Wildcard == StrKey(<<"?">>)

\* d[k] = v on a dictionary kept as the sequence of its <<key, value>> items
\* in insertion order
DictSet(d, k, v) ==
    IF \E n \in 1..Len(d) : d[n][1] = k
    THEN [n \in 1..Len(d) |-> IF d[n][1] = k THEN <<k, v>> ELSE d[n]]
    ELSE Append(d, <<k, v>>)

\* str(n) for a stress period number
Str(n) == <<<<"0", "1", "2", "3", "4", "5", "6", "7", "8", "9">>[n + 1]>>

\* np.searchsorted(globaltimes, t): the number of global times before t
searchsorted(globaltimes, t) ==
    Cardinality({n \in 1..Len(globaltimes) : globaltimes[n] < t})

\* timeutil.forcing_starts_ends(package_times, globaltimes): for every
\* package time the stress periods it is in force, from its own global time
\* to the one before the next package time (a forward fill), as "start" or
\* "start:end"
forcing_starts_ends(package_times, globaltimes) ==
    LET starts == [n \in 1..Len(package_times) |->
                      searchsorted(globaltimes, package_times[n]) + 1]
        ends == [n \in 1..Len(package_times) |->
                    IF n < Len(package_times) THEN starts[n + 1] - 1
                    ELSE Len(globaltimes)]
    IN  [n \in 1..Len(package_times) |->
            IF ends[n] - starts[n] > 0
            THEN Str(starts[n]) \o <<":">> \o Str(ends[n])
            ELSE Str(starts[n])]

\* lines 59-62, _compose(d, pattern): the path made from the pattern and the
\* fields it names (util.compose does the formatting)
_compose(d, pattern) == [pattern |-> pattern, d |-> d]

\* da.values[()] or da.sel(layer=layer).values[()] of a variable without y
\* and x: the values, those of one layer when a position along layer is given
\* (0: all).  Values are kept flat, in the order of the dimensions.
ValuesAt(da, pos) ==
    IF pos = 0 THEN da.values
    ELSE LET nl == Len(CoordOf(da, "layer").vals)
         IN  [t \in 1..(Len(da.values) \div nl) |-> da.values[(t - 1) * nl + pos]]

RECURSIVE LayerLoop(_, _, _, _, _, _, _)
\* lines 125-133: for layer in np.atleast_1d(da.coords["layer"].values),
\* from the n-th layer on
LayerLoop(values, layers, n, idf, d, pattern, da) ==
    IF n > Len(layers) THEN values
    ELSE LayerLoop(
            DictSet(values, IntKey(layers[n]),
                    IF idf THEN _compose([d EXCEPT !.layer = <<layers[n]>>], pattern)
                    ELSE IF InSeq("layer", da.dims) THEN ValuesAt(da, n)
                    ELSE ValuesAt(da, 0)),
            layers, n + 1, idf, d, pattern, da)

\* lines 94-135, Package._compose_values_layer: the dictionary of the values
\* or paths of one variable by layer.  time is <<>> for None, else <<time>>.
_compose_values_layer(varname, directory, nlayer, time, da, compress) ==
    LET d == [directory |-> directory, name |-> varname, extension |-> ".idf",
              time |-> time, layer |-> <<>>]
        pattern == <<"{name}">>
                   \o (IF time # <<>> THEN <<"_{time:%Y%m%d%H%M%S}">> ELSE <<>>)
        idf == ~(~HasCoord(da, "y") /\ ~HasCoord(da, "x"))
    IN  IF ~HasCoord(da, "layer")
        THEN IF idf
             THEN <<<<Wildcard, _compose(d, pattern \o <<"{extension}">>)>>>>
             ELSE <<<<Wildcard, ValuesAt(da, 0)>>>>
        ELSE LayerLoop(<<>>, CoordOf(da, "layer").vals, 1, idf, d,
                       pattern \o <<"_l{layer}{extension}">>, da)

RECURSIVE SortedSeq(_)
\* the members of a set of numbers in increasing order
SortedSeq(S) ==
    IF S = {} THEN <<>>
    ELSE LET m == CHOOSE x \in S : \A y \in S : x <= y
         IN  <<m>> \o SortedSeq(S \ {m})

\* first position of x in s
IndexOf(s, x) == CHOOSE n \in 1..Len(s) : s[n] = x /\ \A m \in 1..(n - 1) : s[m] # x

RECURSIVE TimeLoop(_, _, _, _, _, _, _, _)
\* lines 273-284: for time, start_end in zip(runfile_times, starts_ends)
TimeLoop(values, runfile_times, starts_ends, n, varname, directory, nlayer, da) ==
    IF n > Min2(Len(runfile_times), Len(starts_ends)) THEN values
    ELSE TimeLoop(
            DictSet(values, StrKey(starts_ends[n]),
                    _compose_values_layer(varname, directory, nlayer,
                                          <<runfile_times[n]>>, da,
                                          ~InSeq(":", starts_ends[n]))),
            runfile_times, starts_ends, n + 1, varname, directory, nlayer, da)

\* lines 253-291, BoundaryCondition._compose_values_timelayer: [err, values],
\* values being the dictionary by stress period of the dictionaries by layer.
\* A time coordinate without a dimension is a 0-d array, which cannot be
\* sliced or iterated: the call raises, in forcing_starts_ends or at line
\* 273 (how says which).
_compose_values_timelayer(varname, globaltimes, directory, nlayer, da, how) ==
    IF HasCoord(da, "time")
    THEN IF CoordOf(da, "time").dims = <<>>
         THEN [err |-> Raise(how, <<"0-d array">>), values |-> <<>>]
         ELSE LET da_times == CoordOf(da, "time").vals
                  keys == [n \in 1..Len(da.timemap) |-> da.timemap[n][1]]
                  vals == [n \in 1..Len(da.timemap) |-> da.timemap[n][2]]
                  cat == da_times \o keys
                  package_times ==
                      IF da.timemap # <<>>
                      THEN SortedSeq({cat[n] : n \in 1..Len(cat)})
                      ELSE da_times
                  runfile_times ==
                      IF da.timemap # <<>>
                      THEN [n \in 1..Len(package_times) |->
                               (da_times \o vals)[IndexOf(cat, package_times[n])]]
                      ELSE da_times
                  starts_ends == forcing_starts_ends(package_times, globaltimes)
              IN  [err |-> NoError,
                   values |-> TimeLoop(<<>>, runfile_times, starts_ends, 1, varname,
                                       directory, nlayer, da)]
    ELSE [err |-> NoError,
          values |-> <<<<Wildcard,
                         _compose_values_layer(varname, directory, nlayer, <<>>, da,
                                               TRUE)>>>>]

\* ------------------------------------------------------------ imod.mf6.uzf

\* the float infinity, next to NaN = <<0, 0>>
Inf == <<1, 0>>

\* np.isfinite
isfinite(x) == x[2] # 0

\* line 265: (np.isfinite(kv_sat)).astype(np.int32)
_determine_landflag(kv_sat) ==
    [l \in 1..Len(kv_sat) |-> [i \in 1..Len(kv_sat[l]) |-> [j \in 1..Len(kv_sat[l][i]) |->
        IF isfinite(kv_sat[l][i][j]) THEN 1 ELSE 0]]]

\* np.ravel of a (layer, y, x) array: its cells in row-major order
ravel(a) ==
    LET nrow == Len(a[1])
        ncol == Len(a[1][1])
    IN  [n \in 1..(Len(a) * nrow * ncol) |->
            a[((n - 1) \div (nrow * ncol)) + 1]
             [(((n - 1) \div ncol) % nrow) + 1]
             [((n - 1) % ncol) + 1]]

\* flat.reshape(shape), shape = <<nlayer, nrow, ncol>>
reshape(flat, shape) ==
    [l \in 1..shape[1] |-> [i \in 1..shape[2] |-> [j \in 1..shape[3] |->
        flat[(l - 1) * shape[2] * shape[3] + (i - 1) * shape[3] + j]]]]

\* Numbers that are the running count everywhere, inactive cells included.
CountWithoutMask(landflag) ==
    LET flat == ravel(landflag)
        shape == <<Len(landflag), Len(landflag[1]), Len(landflag[1][1])>>
    IN  reshape([n \in 1..Len(flat) |-> cumsum(flat, n)], shape)

\* line 263: np.cumsum(np.ravel(landflag)).reshape(landflag.shape) * landflag
_create_uzf_numbers(landflag) ==
    LET flat == ravel(landflag)
        shape == <<Len(landflag), Len(landflag[1]), Len(landflag[1][1])>>
        count == reshape([n \in 1..Len(flat) |-> cumsum(flat, n)], shape)
    IN  [l \in 1..shape[1] |-> [i \in 1..shape[2] |-> [j \in 1..shape[3] |->
            count[l][i][j] * landflag[l][i][j]]]]

\* A shift the other way: uzf_number.shift(layer=1, fill_value=0).
ShiftFromAbove(uzf_number) ==
    [l \in 1..Len(uzf_number) |->
        IF l > 1 THEN uzf_number[l - 1]
        ELSE [i \in 1..Len(uzf_number[l]) |-> [j \in 1..Len(uzf_number[l][i]) |-> 0]]]

\* line 268: uzf_number.shift(layer=-1, fill_value=0)
_determine_vertical_connection(uzf_number) ==
    [l \in 1..Len(uzf_number) |->
        IF l < Len(uzf_number) THEN uzf_number[l + 1]
        ELSE [i \in 1..Len(uzf_number[l]) |-> [j \in 1..Len(uzf_number[l][i]) |-> 0]]]

\* An optional argument is <<>> for None, else <<value>>.
None == <<>>

\* [x is not None for x in xs]
IsNotNone(xs) == [n \in 1..Len(xs) |-> xs[n] # None]

any(bs) == \E n \in 1..Len(bs) : bs[n]

\* A test that is satisfied by one input that is given.
OneIsEnough(bs) == \E n \in 1..Len(bs) : bs[n]

all(bs) == \A n \in 1..Len(bs) : bs[n]

\* lines 229-257, _check_options: [err, keys], keys being the options set to
\* True in the package so far
_check_options(groundwater_ET_function, et_pot, extinction_depth, extinction_theta, air_entry_potential, root_potential, root_activity) ==
    LET simulate_et == IsNotNone(<<et_pot, extinction_depth>>)
        unsat_etae == IsNotNone(<<air_entry_potential, root_potential, root_activity>>)
        k1 == IF all(simulate_et) THEN {"simulate_et"} ELSE {}
        k2 == k1 \cup (IF extinction_theta # None THEN {"unsat_etwc"} ELSE {})
        k3 == k2 \cup (IF all(unsat_etae) THEN {"unsat_etae"} ELSE {})
    IN  IF ~all(simulate_et) /\ any(simulate_et)
        THEN [err |-> Raise("ValueError",
                            <<"To simulate ET, set both et_pot and extinction_depth">>),
              keys |-> k1]
        ELSE IF ~all(unsat_etae) /\ any(unsat_etae)
        THEN [err |-> Raise("ValueError",
                            <<"To simulate ET with a capillary based formulation, set air_entry_potential, root_potential, and root_activity">>),
              keys |-> k2]
        ELSE IF groundwater_ET_function \notin {<<"linear">>, <<"square">>, None}
        THEN [err |-> Raise("ValueError",
                            <<"Groundwater ET function should be either 'linear','square' or None">>),
              keys |-> k3]
        ELSE IF groundwater_ET_function = <<"linear">>
        THEN [err |-> NoError, keys |-> k3 \cup {"linear_gwet"}]
        ELSE IF groundwater_ET_function = <<"square">>
        THEN [err |-> NoError, keys |-> k3 \cup {"square_gwet"}]
        ELSE [err |-> NoError, keys |-> k3]

\* ------------------------------------------------------------ the inputs

\* The source grid: NLayer layers over NRow x NCol map-view columns.
NLayer == 2

NRow == 1

NCol == 2

\* The number of concurrent callers.
NThreads == 2

Threads == 1..NThreads

\* What a caller passes as method: a name or a function.
MethodInputs ==
    [kind : {"str"}, name : CommonMETHODS \cup {"percentile"}]
    \cup [kind : {"callable"}, name : {"first_value"}]

\* The values of one column, layer by layer.
ValuePatterns == {"asc", "neg", "nantop", "allnan"}

ColumnValues(p, l) ==
    CASE p = "asc" -> Num(10 * l)
      [] p = "neg" -> Num(-10 * l)
      [] p = "nantop" -> IF l = 1 THEN NaN ELSE Num(10 * l)
      [] p = "allnan" -> NaN

Even(i, j) == (i + j) % 2 = 0

XYCoords ==
    <<[k |-> "layer", dims |-> <<"layer">>, vals |-> [l \in 1..NLayer |-> l]],
      [k |-> "y", dims |-> <<"y">>, vals |-> [i \in 1..NRow |-> 100 - 10 * i]],
      [k |-> "x", dims |-> <<"x">>, vals |-> [j \in 1..NCol |-> 10 * j]]>>

\* A DataArray with dimensions (layer, y, x) around the values v
LayeredArray(v) == [dims |-> <<"layer", "y", "x">>, coords |-> XYCoords, values |-> v]

\* Source values: one pattern on the even columns, one on the odd ones.
Source(pe, po) ==
    LayeredArray([l \in 1..NLayer |-> [i \in 1..NRow |-> [j \in 1..NCol |->
        ColumnValues(IF Even(i, j) THEN pe ELSE po, l)]]])

\* Layers 8 units thick stacked on a base that is oe on the even columns and
\* oo on the odd ones; layer 1 is the lowest layer if up, the highest if not.
LayerBottom(up, oe, oo, l, i, j) ==
    (IF Even(i, j) THEN oe ELSE oo) + 8 * ((IF up THEN l ELSE NLayer + 1 - l) - 1)

Bottom(up, oe, oo) ==
    LayeredArray([l \in 1..NLayer |-> [i \in 1..NRow |-> [j \in 1..NCol |->
        LayerBottom(up, oe, oo, l, i, j)]]])

Top(up, oe, oo) ==
    LayeredArray([l \in 1..NLayer |-> [i \in 1..NRow |-> [j \in 1..NCol |->
        LayerBottom(up, oe, oo, l, i, j) + 8]]])

ZCoord(dim, vals) == [k |-> "z", dims |-> <<dim>>, vals |-> vals]

DzCoord(vals) == [k |-> "dz", dims |-> <<"z">>, vals |-> vals]

DzScalar(dz) == [k |-> "dz", dims |-> <<>>, vals |-> <<dz>>]

VoxelLike(coords) == [dims |-> <<"z", "y", "x">>, coords |-> coords, values |-> <<>>]

\* The centres of NLayer voxels with the edges 0, 8, 16, ...
SameZ == [l \in 1..NLayer |-> 8 * l - 4]

\* Templates on which the kernel runs.
GoodLikes ==
    {VoxelLike(<<ZCoord("z", SameZ)>>),
     VoxelLike(<<ZCoord("z", SameZ), DzScalar(8)>>),
     VoxelLike(<<ZCoord("z", Reverse(SameZ))>>),
     VoxelLike(<<ZCoord("z", <<2, 8, 14>>), DzCoord(<<4, 8, 4>>)>>),
     VoxelLike(<<ZCoord("z", <<-4, 4, 12>>), DzScalar(8)>>),
     VoxelLike(<<ZCoord("z", <<8>>), DzScalar(16)>>),
     VoxelLike(<<ZCoord("z", <<2, 8, 16>>), DzCoord(<<4, 8, 8>>)>>),
     VoxelLike(<<ZCoord("z", <<16, 8, 2>>), DzCoord(<<8, 8, 4>>)>>),
     VoxelLike(<<ZCoord("z", <<0, 400000000, 800003000>>)>>)}

\* Templates that make the call raise.
BadLikes ==
    {VoxelLike(<<ZCoord("z", <<8>>)>>),
     VoxelLike(<<ZCoord("z", <<2, 8, 12>>)>>),
     VoxelLike(<<ZCoord("z", <<2, 8, 14>>), DzCoord(<<4, -8, 4>>)>>),
     [dims |-> <<"layer", "y", "x">>, coords |-> <<ZCoord("layer", SameZ)>>,
      values |-> <<>>],
     [dims |-> <<"layer", "y", "x">>, coords |-> <<[k |-> "z", dims |-> <<>>,
                                                    vals |-> <<4>>]>>,
      values |-> <<>>],
     [dims |-> <<"layer", "y", "x">>, coords |-> <<>>, values |-> <<>>],
     [dims |-> <<"y", "x">>, coords |-> <<>>, values |-> <<>>],
     [dims |-> <<"y", "x">>, coords |-> <<DzScalar(8)>>, values |-> <<>>]}

BaseSource == Source("asc", "neg")

BaseTop == Top(TRUE, 0, 0)

BaseBottom == Bottom(TRUE, 0, 0)

BaseLike == VoxelLike(<<ZCoord("z", SameZ)>>)

Swapped(da) == [da EXCEPT !.dims = <<"layer", "x", "y">>]

Shifted(da) == [da EXCEPT !.coords[3].vals = [j \in 1..NCol |-> 10 * j + 5]]

Reordered(da) == [da EXCEPT !.coords = <<@[1], @[3], @[2]>>]

\* da.assign_coords(time=1): one more coordinate, stored after the others
Extra(da) == [da EXCEPT !.coords = Append(@, [k |-> "time", dims |-> <<>>,
                                               vals |-> <<1>>])]

\* The calls that reach the kernel: every pair of value patterns on every
\* geometry and every good template.
GoodCalls ==
    {[source |-> Source(pe, po), top |-> Top(up, oe, oo),
      bottom |-> Bottom(up, oe, oo), like |-> like] :
        pe \in ValuePatterns, po \in ValuePatterns, up \in BOOLEAN,
        oe \in {0}, oo \in {0, 2}, like \in GoodLikes}

\* The calls with a bad template, bad dimensions or bad coordinates.
BadCalls ==
    {[source |-> BaseSource, top |-> BaseTop, bottom |-> BaseBottom, like |-> like] :
        like \in BadLikes}
    \cup
    {[source |-> s, top |-> t, bottom |-> b, like |-> like] :
        s \in {BaseSource, Swapped(BaseSource), Shifted(BaseSource),
               Reordered(BaseSource), Extra(BaseSource)},
        t \in {BaseTop, Swapped(BaseTop)},
        b \in {BaseBottom, Swapped(BaseBottom), Shifted(BaseBottom)},
        like \in {BaseLike, VoxelLike(<<ZCoord("z", SameZ), DzScalar(8)>>)}}
    \cup
    {[source |-> Swapped(BaseSource), top |-> BaseTop, bottom |-> BaseBottom,
      like |-> like] : like \in BadLikes}

Calls == GoodCalls \cup BadCalls

\* The calls of concurrent callers: one that runs, one that fails validation.
ConcCalls ==
    {[source |-> BaseSource, top |-> BaseTop, bottom |-> BaseBottom, like |-> like] :
        like \in {BaseLike, VoxelLike(<<ZCoord("z", <<2, 8, 12>>)>>)}}

\* The greatest number of cells of an axis given to _coord.
MaxCells == 3

\* First differences of the centres: a few units, 0.5, 1 and 4 (in units of
\* 1e-8), in both directions.
Spacings == {8, -8, 50000000, 100000000, -100000000, 400000000}

\* By how much a later difference departs from the spacing.
Deviations == {0, 2, 40, 1000, 3000}

\* Two or more centres that start at x0, with the spacing d between the first
\* two and the spacing d + e[n] between centre n + 1 and the next
Centres(x0, d, e) ==
    [n \in 1..(Len(e) + 2) |->
        x0 + (n - 1) * d + (IF n < 3 THEN 0 ELSE cumsum(e, n - 2))]

\* One-dimensional arrays along x, without and with a dx coordinate.
Axis(x) ==
    [dims |-> <<"x">>, coords |-> <<[k |-> "x", dims |-> <<"x">>, vals |-> x]>>,
     values |-> x]

AxisWith(x, dxdims, dx) ==
    [dims |-> <<"x">>,
     coords |-> <<[k |-> "x", dims |-> <<"x">>, vals |-> x],
                  [k |-> "dx", dims |-> dxdims, vals |-> dx]>>,
     values |-> x]

\* Axes whose spacing has to be inferred: a single centre, or centres whose
\* second difference onwards departs from the first by a deviation.
InferredAxes ==
    {Axis(<<x0>>) : x0 \in {0, -6}}
    \cup
    {Axis(Centres(x0, d, e)) :
        x0 \in {0, -6}, d \in Spacings,
        e \in UNION {[1..(n - 2) -> Deviations] : n \in 2..MaxCells}}

\* Axes with a dx coordinate, a scalar or one spacing per cell, of either
\* sign, of mixed signs, or zero.
GivenAxes ==
    {AxisWith(<<0>>, <<>>, <<dx>>) : dx \in {8, -8, 0}}
    \cup
    {AxisWith(Centres(x0, d, e), <<>>, <<dx>>) :
        x0 \in {0}, d \in {8, -8}, dx \in {8, -8, 0},
        e \in UNION {[1..(n - 2) -> {0, 2}] : n \in 2..MaxCells}}
    \cup
    UNION {{AxisWith(Centres(0, d, [m \in 1..(n - 2) |-> 0]), <<"x">>, dx) :
                d \in {8, -8}, dx \in [1..n -> {4, -4, 8}]} : n \in 2..MaxCells}

\* Cell sizes: 1.0, 0.5, 0.1 (those of the test), 0.35, a hair below 0.35,
\* 0.12 and 0.09999, in units of 1e-8.
SizeValues == {100000000, 50000000, 10000000, 35000000, 34999999, 12000000, 9999000}

\* Divisors: 0.05 and 0.07 (those of the test), 0.1 and 0.025.
Divisors == {5000000, 7000000, 10000000, 2500000}

SizeArrays == UNION {[1..n -> SizeValues] : n \in 1..MaxCells}

\* The stress periods of a simulation.
MaxPeriods == 3

\* globaltimes: the times of all boundary conditions together, in order
GlobalTimes == [n \in 1..MaxPeriods |-> 10 * n]

TimeValues == {GlobalTimes[n] : n \in 1..MaxPeriods}

\* A coordinate of a package variable: absent (<<>>), a scalar without a
\* dimension, or one along its own dimension with increasing values.
CoordinateChoices(k, S) ==
    {<<>>}
    \cup {<<[k |-> k, dims |-> <<>>, vals |-> <<x>>]>> : x \in S}
    \cup {<<[k |-> k, dims |-> <<k>>, vals |-> SortedSeq(T)]>> : T \in SUBSET S \ {{}}}

\* timemap attributes for a variable with the times T: none, or one later
\* global time that repeats an earlier time of the variable
TimemapChoices(time) ==
    {<<>>}
    \cup (IF time = <<>> \/ time[1].dims = <<>> THEN {}
          ELSE {<<<<k, time[1].vals[1]>>>> :
                   k \in {x \in TimeValues : ~InSeq(x, time[1].vals)
                                             /\ x > time[1].vals[1]}})

\* The values of a variable without y and x, by time and layer where those
\* are dimensions, flat: the value at (t, l) is 10 * t + l.
ConstantValues(time, layer) ==
    LET nt == IF time # <<>> /\ time[1].dims # <<>> THEN Len(time[1].vals) ELSE 1
        nl == IF layer # <<>> /\ layer[1].dims # <<>> THEN Len(layer[1].vals) ELSE 1
    IN  [n \in 1..(nt * nl) |-> 10 * (((n - 1) \div nl) + 1) + ((n - 1) % nl) + 1]

\* A package variable: a grid (with y and x, saved as IDF files) or constants.
PackageVariable(time, layer, idf, timemap) ==
    LET own == [n \in 1..Len(time \o layer) |-> (time \o layer)[n]]
        dimmed == SelectSeq(own, LAMBDA c : c.dims # <<>>)
        yx == IF idf THEN <<[k |-> "y", dims |-> <<"y">>, vals |-> <<3, 1>>],
                            [k |-> "x", dims |-> <<"x">>, vals |-> <<1, 3>>]>>
              ELSE <<>>
    IN  [dims |-> [n \in 1..Len(dimmed) |-> dimmed[n].k]
                  \o [n \in 1..Len(yx) |-> yx[n].k],
         coords |-> own \o yx,
         values |-> IF idf THEN <<>> ELSE ConstantValues(time, layer),
         timemap |-> timemap]

PackageVariables ==
    {PackageVariable(time, layer, idf, timemap) :
        time \in CoordinateChoices("time", TimeValues),
        layer \in CoordinateChoices("layer", 1..NLayer),
        idf \in BOOLEAN,
        timemap \in {<<>>}}
    \cup UNION {{PackageVariable(time, layer, idf, timemap) :
                    layer \in CoordinateChoices("layer", 1..NLayer),
                    idf \in BOOLEAN,
                    timemap \in TimemapChoices(time)} :
                time \in CoordinateChoices("time", TimeValues)}

\* Which cells of a column are active: all, none, all but the top layer, all
\* but the bottom layer (infinite there), or every other layer.
ActivePatterns == {"all", "none", "below", "above", "odd"}

\* kv_sat of layer l of a column: finite on an active cell
ColumnKvSat(p, l) ==
    CASE p = "all" -> Frac(l, 10)
      [] p = "none" -> NaN
      [] p = "below" -> IF l = 1 THEN NaN ELSE Frac(l, 10)
      [] p = "above" -> IF l = NLayer THEN Inf ELSE Frac(l, 10)
      [] p = "odd" -> IF l % 2 = 1 THEN Frac(l, 10) ELSE NaN

\* kv_sat on (layer, y, x): one pattern on the even columns, one on the odd
\* ones
KvSat(pe, po) ==
    [l \in 1..NLayer |-> [i \in 1..NRow |-> [j \in 1..NCol |->
        ColumnKvSat(IF Even(i, j) THEN pe ELSE po, l)]]]

\* An optional array argument: None or an array (the options test only which)
OptionalArrays == {None, <<"array">>}

\* ------------------------------------------------------ the state machine

VARIABLES
    ctor,          \* "none", then "ok" or "raised": how Voxelizer(method) ended
    ctorErr,       \* what the constructor raised
    given_method,  \* the method the constructor was called with
    self,          \* the instance: method, _first_call, _voxelize
    builds,        \* how often _make_voxelize has run
    called,        \* whether voxelize was ever called
    pc,            \* per caller: where it is in voxelize
    given,         \* per caller: the arguments as they were passed
    args,          \* per caller: the arguments as they are now
    entry,         \* per caller: the instance as it was when the call began
    res,           \* per caller: what the call raised or returned
    registries,    \* the registry dicts: object 1 is common.METHODS, object 2
                   \* is unallocated until something makes a new dict
    voxelize_METHODS,  \* the object the name METHODS of the voxelize module is
                       \* bound to; 0 before the module is loaded
    axis,          \* the array last given to _coord
    coord,         \* what _coord raised or returned for it
    divisor_test,  \* the last run of test_is_divisor: its inputs and results
    rendered,      \* the last package variable composed: input and values
    uzf            \* the last UnsaturatedZoneFlow(...): input and package

vars == <<ctor, ctorErr, given_method, self, builds, called, pc, given, args, entry, res,
          registries, voxelize_METHODS, axis, coord, divisor_test, rendered, uzf>>

NoArray == [dims |-> <<>>, coords |-> <<>>, values |-> <<>>]

NoCall == [source |-> NoArray, top |-> NoArray, bottom |-> NoArray, like |-> NoArray]

NoSelf == [method |-> "", _first_call |-> FALSE, _voxelize |-> ""]

NoCoord == [err |-> NoError, val |-> <<>>]

NoDivisorTest == [a |-> <<>>, b |-> 0, results |-> <<>>]

NoUzf == [built |-> "none", err |-> NoError, kv_sat |-> <<>>, given |-> <<>>,
          keys |-> {}, landflag |-> <<>>, iuzno |-> <<>>, ivertcon |-> <<>>]

NoRender == [da |-> [dims |-> <<>>, coords |-> <<>>, values |-> <<>>, timemap |-> <<>>],
             out |-> [err |-> NoError, values |-> <<>>]]

Init ==
    /\ ctor = "none"
    /\ ctorErr = NoError
    /\ given_method = [kind |-> "str", name |-> ""]
    /\ self = NoSelf
    /\ builds = 0
    /\ called = FALSE
    /\ pc = [t \in Threads |-> "idle"]
    /\ given = [t \in Threads |-> NoCall]
    /\ args = [t \in Threads |-> NoCall]
    /\ entry = [t \in Threads |-> NoSelf]
    /\ res = [t \in Threads |-> NoResult(NoError)]
    /\ registries = <<CommonMETHODS, {}>>
    /\ voxelize_METHODS = 0
    /\ axis = NoArray
    /\ coord = NoCoord
    /\ divisor_test = NoDivisorTest
    /\ rendered = NoRender
    /\ uzf = NoUzf

\* A binding without the copy: METHODS = common.METHODS.
SameObject(ref) == ref

\* line 10, common.METHODS.copy(): the copy is a new dict, object 2
CopyOf(ref) == 2

\* lines 9-13, loading the voxelize module: METHODS is bound to a copy of
\* common.METHODS and the three keys are popped from the object it is bound
\* to, which then holds METHODS.
LoadModule ==
    /\ voxelize_METHODS = 0
    /\ voxelize_METHODS' = CopyOf(1)
    /\ registries' = [registries EXCEPT ![CopyOf(1)] = METHODS]
    /\ UNCHANGED <<ctor, ctorErr, given_method, self, builds, called, pc, given, args,
                   entry, res, axis, coord, divisor_test, rendered, uzf>>

\* A constructor that stores the method without looking it up.
ConstructUnchecked(m) ==
    /\ voxelize_METHODS # 0
    /\ ctor = "none"
    /\ given_method' = m
    /\ ctor' = "ok"
    /\ ctorErr' = NoError
    /\ self' = [method |-> m.name, _first_call |-> TRUE, _voxelize |-> ""]
    /\ UNCHANGED <<builds, called, pc, given, args, entry, res,
                   registries, voxelize_METHODS, axis, coord,
                   divisor_test, rendered, uzf>>

\* lines 142-145: Voxelizer(method)
Construct(m) ==
    LET r == _get_method(m, registries[voxelize_METHODS])
    IN  /\ voxelize_METHODS # 0
        /\ ctor = "none"
        /\ given_method' = m
        /\ IF r.err # NoError
           THEN /\ ctor' = "raised"
                /\ ctorErr' = r.err
                /\ self' = self
           ELSE /\ ctor' = "ok"
                /\ ctorErr' = NoError
                /\ self' = [method |-> r.method, _first_call |-> TRUE,
                            _voxelize |-> ""]
        /\ UNCHANGED <<builds, called, pc, given, args, entry, res,
                   registries, voxelize_METHODS, axis, coord,
                   divisor_test, rendered, uzf>>

\* lines 159-207: caller t enters voxelize(source, top, bottom, like) and the
\* inputs are checked
Call(t, a) ==
    LET v == Validate(a)
    IN  /\ ctor = "ok"
        /\ self.method \in Computable
        /\ pc[t] = "idle"
        /\ called' = TRUE
        /\ given' = [given EXCEPT ![t] = a]
        /\ args' = [args EXCEPT ![t] = [a EXCEPT !.like = v.like]]
        /\ entry' = [entry EXCEPT ![t] = self]
        /\ IF v.err # NoError
           THEN /\ pc' = [pc EXCEPT ![t] = "done"]
                /\ res' = [res EXCEPT ![t] = NoResult(v.err)]
           ELSE /\ pc' = [pc EXCEPT ![t] = "check"]
                /\ res' = [res EXCEPT ![t] = NoResult(NoError)]
        /\ UNCHANGED <<ctor, ctorErr, given_method, self, builds,
                   registries, voxelize_METHODS, axis, coord,
                   divisor_test, rendered, uzf>>

\* line 209: if self._first_call
CheckFirstCall(t) ==
    /\ pc[t] = "check"
    /\ pc' = [pc EXCEPT ![t] = IF NeedsPlan(self._first_call) THEN "make" ELSE "run"]
    /\ UNCHANGED <<ctor, ctorErr, given_method, self, builds, called, given, args,
                   entry, res,
                   registries, voxelize_METHODS, axis, coord,
                   divisor_test, rendered, uzf>>

\* line 210, lines 147-157: self._make_voxelize()
MakeVoxelize(t) ==
    /\ pc[t] = "make"
    /\ self' = FirstCallBody(1, self)
    /\ builds' = builds + 1
    /\ pc' = [pc EXCEPT ![t] = "clear"]
    /\ UNCHANGED <<ctor, ctorErr, given_method, called, given, args, entry, res,
                   registries, voxelize_METHODS, axis, coord,
                   divisor_test, rendered, uzf>>

\* line 211: self._first_call = False
ClearFirstCall(t) ==
    /\ pc[t] = "clear"
    /\ self' = FirstCallBody(2, self)
    /\ pc' = [pc EXCEPT ![t] = "run"]
    /\ UNCHANGED <<ctor, ctorErr, given_method, builds, called, given, args, entry,
                   res,
                   registries, voxelize_METHODS, axis, coord,
                   divisor_test, rendered, uzf>>

\* lines 213-236: the edges, the output array and the kernel
Run(t) ==
    /\ pc[t] = "run"
    /\ res' = [res EXCEPT ![t] = RunPlan(args[t], self._voxelize)]
    /\ pc' = [pc EXCEPT ![t] = "done"]
    /\ UNCHANGED <<ctor, ctorErr, given_method, self, builds, called, given, args,
                   entry,
                   registries, voxelize_METHODS, axis, coord,
                   divisor_test, rendered, uzf>>

\* the call has returned or raised; the caller drops its arguments and result
Return(t) ==
    /\ pc[t] = "done"
    /\ pc' = [pc EXCEPT ![t] = "idle"]
    /\ given' = [given EXCEPT ![t] = NoCall]
    /\ args' = [args EXCEPT ![t] = NoCall]
    /\ entry' = [entry EXCEPT ![t] = NoSelf]
    /\ res' = [res EXCEPT ![t] = NoResult(NoError)]
    /\ UNCHANGED <<ctor, ctorErr, given_method, self, builds, called,
                   registries, voxelize_METHODS, axis, coord,
                   divisor_test, rendered, uzf>>

\* lines 62-95: _coord(da, "x")
Coord(da) ==
    /\ axis' = da
    /\ coord' = _coord(da, "x")
    /\ UNCHANGED <<ctor, ctorErr, given_method, self, builds, called, pc, given, args,
                   entry, res, registries, voxelize_METHODS, divisor_test, rendered,
                   uzf>>

\* the else branch of line 65: no dx coordinate
InferCoord == \E da \in InferredAxes : Coord(da)

\* the branch of line 65: a dx coordinate
GivenCoord == \E da \in GivenAxes : Coord(da)

\* test_util.py lines 390-401, for an array a and a divisor b: is_divisor
\* of (a, b), (-a, b), (a, -b) and (-a, -b)
test_is_divisor(a, b) ==
    /\ divisor_test = NoDivisorTest
    /\ divisor_test' = [a |-> a, b |-> b,
                        results |-> <<is_divisor(a, b), is_divisor(Neg(a), b),
                                      is_divisor(a, -b), is_divisor(Neg(a), -b)>>]
    /\ UNCHANGED <<ctor, ctorErr, given_method, self, builds, called, pc, given, args,
                   entry, res, registries, voxelize_METHODS, axis, coord, rendered,
                   uzf>>

DivisorTest == \E a \in SizeArrays, b \in Divisors : test_is_divisor(a, b)

\* A package composes the values of one of its variables for the runfile.
compose(da, how) ==
    /\ rendered.out = NoRender.out
    /\ rendered' = [da |-> da,
                    out |-> _compose_values_timelayer("rate", GlobalTimes, "wel",
                                                      NLayer, da, how)]
    /\ UNCHANGED <<ctor, ctorErr, given_method, self, builds, called, pc, given, args,
                   entry, res, registries, voxelize_METHODS, axis, coord, divisor_test,
                   uzf>>

\* lines 145-214, UnsaturatedZoneFlow.__init__: the options are checked, then
\* the land flags, the UZF numbers and the vertical connections are derived
\* from kv_sat.  o holds groundwater_ET_function, et_pot, extinction_depth,
\* extinction_theta, air_entry_potential, root_potential, root_activity.
UnsaturatedZoneFlow(kv_sat, o) ==
    LET checked == _check_options(o[1], o[2], o[3], o[4], o[5], o[6], o[7])
        landflag == _determine_landflag(kv_sat)
        iuzno == _create_uzf_numbers(landflag)
    IN  /\ uzf.built = "none"
        /\ uzf' = IF checked.err # NoError
                  THEN [NoUzf EXCEPT !.built = "raised", !.err = checked.err,
                                     !.kv_sat = kv_sat, !.given = o,
                                     !.keys = checked.keys]
                  ELSE [built |-> "ok", err |-> NoError, kv_sat |-> kv_sat,
                        given |-> o, keys |-> checked.keys, landflag |-> landflag,
                        iuzno |-> iuzno,
                        ivertcon |-> _determine_vertical_connection(iuzno)]
        /\ UNCHANGED <<ctor, ctorErr, given_method, self, builds, called, pc, given,
                       args, entry, res, registries, voxelize_METHODS, axis, coord,
                       divisor_test, rendered>>

NewUzf ==
    \E pe \in ActivePatterns, po \in ActivePatterns,
       f \in {<<"linear">>, <<"square">>, None, <<"cubic">>}, o \in [1..6 -> OptionalArrays] :
        UnsaturatedZoneFlow(KvSat(pe, po), <<f>> \o o)

\* how: the exception a time coordinate without a dimension ends in
Render ==
    \E da \in PackageVariables, how \in {"TypeError", "IndexError"} : compose(da, how)

Constructor == \E m \in MethodInputs : Construct(m)

\* one caller: a call begins when the previous one has ended
SeqCall == \E a \in Calls : (\A u \in Threads : pc[u] = "idle") /\ Call(1, a)

\* several callers on the same instance
ConcCall == \E t \in Threads, a \in ConcCalls : Call(t, a)

FirstCallStep == \E t \in Threads : CheckFirstCall(t)

MakeStep == \E t \in Threads : MakeVoxelize(t)

ClearStep == \E t \in Threads : ClearFirstCall(t)

RunStep == \E t \in Threads : Run(t)

ReturnStep == \E t \in Threads : Return(t)

Next ==
    \/ LoadModule
    \/ Constructor
    \/ SeqCall
    \/ FirstCallStep
    \/ MakeStep
    \/ ClearStep
    \/ RunStep
    \/ ReturnStep

\* A single caller making one voxelize call after the other.
Spec == Init /\ [][Next]_vars

NextConc ==
    \/ LoadModule
    \/ Constructor
    \/ ConcCall
    \/ FirstCallStep
    \/ MakeStep
    \/ ClearStep
    \/ RunStep
    \/ ReturnStep

\* Several callers whose calls interleave at the statements of voxelize.
SpecConc == Init /\ [][NextConc]_vars

NextCoord ==
    \/ InferCoord
    \/ GivenCoord

\* _coord applied to one axis after the other.
SpecCoord == Init /\ [][NextCoord]_vars

NextDivisor == DivisorTest

\* One run of the test: is_divisor applied to an array and a divisor.
SpecDivisor == Init /\ [][NextDivisor]_vars

NextUzf == NewUzf

\* One UnsaturatedZoneFlow package constructed.
SpecUzf == Init /\ [][NextUzf]_vars

NextRender == Render

\* One variable of a package rendered.
SpecRender == Init /\ [][NextRender]_vars

\* ------------------------------------------------------------ the claims

Disallowed == {"conductance", "nearest", "multilinear"}

\* C1: constructing a Voxelizer with method "conductance", "nearest" or
\* "multilinear" ends in a configuration error raised by the constructor: no
\* instance exists and no voxelize call was made on it.
C1_DisallowedMethodRaises ==
    (ctor # "none" /\ given_method.kind = "str" /\ given_method.name \in Disallowed)
    => /\ ctor = "raised"
       /\ ctorErr.type = "ConfigurationError"
       /\ self = NoSelf
       /\ ~called

C1_Witness ==
    /\ ctor = "raised"
    /\ given_method = [kind |-> "str", name |-> "conductance"]

\* C2: constructing a Voxelizer with a method name that is not in its registry
\* raises a ConfigurationError whose message contains the attempted name.
C2_UnknownNameRaises ==
    (ctor # "none" /\ given_method.kind = "str"
        /\ given_method.name \notin CommonMETHODS \ Disallowed)
    => /\ ctor = "raised"
       /\ ctorErr.type = "ConfigurationError"
       /\ InSeq(given_method.name, ctorErr.msg)

C2_Witness ==
    /\ ctor = "raised"
    /\ given_method = [kind |-> "str", name |-> "percentile"]
    /\ InSeq("percentile", ctorErr.msg)

\* C3: with one caller, _make_voxelize runs at most once; it is run by the
\* first call that passes validation (a call that began on an instance with
\* _first_call set), and from then on _first_call stays cleared and every
\* later call runs the plan that was built then.
C3_PlanBuiltOnce ==
    ctor = "ok" =>
       /\ builds <= 1
       /\ self._voxelize = (IF builds = 0 THEN "" ELSE self.method)
       /\ self._first_call <=> (builds = 0 \/ \E t \in Threads : pc[t] = "clear")
       /\ \A t \in Threads :
            /\ pc[t] \in {"make", "clear"} => entry[t]._first_call
            /\ pc[t] = "make" => builds = 0
            /\ pc[t] = "run" => builds = 1 /\ ~self._first_call
            /\ (pc[t] = "done" /\ self # entry[t]) => entry[t]._first_call

\* a later call about to run the plan the first call built
C3_Witness ==
    \E t \in Threads :
        /\ pc[t] = "run"
        /\ ~entry[t]._first_call
        /\ entry[t]._voxelize = self.method
        /\ builds = 1

\* C4: with concurrent callers, a call that runs the kernel finds a complete
\* plan compiled from the instance's method (its own, or the one another
\* first call stored), an instance whose _first_call is cleared has its plan,
\* every build was started by a call that saw _first_call set, and no call
\* fails for want of the plan.
C4_NoMissingPlan ==
    ctor = "ok" =>
       /\ ~self._first_call => self._voxelize = self.method
       /\ self._voxelize \in {"", self.method}
       /\ \A t \in Threads :
            /\ pc[t] = "run" => self._voxelize = self.method
            /\ pc[t] = "done" => res[t].err.type # "AttributeError"

\* two first calls raced: both built the plan, one of them is about to run
C4_Witness ==
    /\ builds = 2
    /\ \E t \in Threads : pc[t] = "run" /\ entry[t]._first_call
    /\ \E t \in Threads : pc[t] = "done" /\ res[t].err = NoError

\* C5: a call that raised a validation error (a ValueError) has left the
\* instance as it found it (no plan built, _first_call unchanged) and has
\* computed no output.
C5_ValidationBeforeAnyEffect ==
    \A t \in Threads :
        (pc[t] = "done" /\ res[t].err.type = "ValueError")
        => /\ self = entry[t]
           /\ res[t].calls = <<>>
           /\ res[t].dst = <<>>

\* C6: when a call has ended, by a return or by a raise, source, top, bottom
\* and like (its coordinates included) are as they were passed.
C6_ArgumentsUntouched ==
    \A t \in Threads : pc[t] = "done" => args[t] = given[t]

\* The voxel ii of a template, from its centre and its spacing.
VoxelDz(like, ii) ==
    LET c == CoordOf(like, "dz")
    IN  Abs(IF c.dims = <<>> \/ Len(c.vals) = 1 THEN c.vals[1] ELSE c.vals[ii])

VoxelLo(like, ii) == CoordOf(like, "z").vals[ii] - (VoxelDz(like, ii) \div 2)

VoxelHi(like, ii) == CoordOf(like, "z").vals[ii] + (VoxelDz(like, ii) \div 2)

\* The length that layer l of column (i, j) shares with voxel ii (positive,
\* or else they share nothing).
Shared(a, l, ii, i, j) ==
    Min2(a.top.values[l][i][j], VoxelHi(a.like, ii))
    - Max2(a.bottom.values[l][i][j], VoxelLo(a.like, ii))

Overlapping(a, ii, i, j) ==
    {l \in 1..Len(a.source.values) : Shared(a, l, ii, i, j) > 0}

RECURSIVE Contributions(_, _, _, _, _)
\* The pairs <<value, shared length>> of the layers 1..l that overlap voxel ii.
Contributions(a, l, ii, i, j) ==
    IF l = 0 THEN <<>>
    ELSE IF Shared(a, l, ii, i, j) > 0
         THEN Append(Contributions(a, l - 1, ii, i, j),
                     <<a.source.values[l][i][j], Shared(a, l, ii, i, j)>>)
         ELSE Contributions(a, l - 1, ii, i, j)

RECURSIVE SumVW(_, _)
SumVW(c, n) == IF n = 0 THEN Num(0)
               ELSE FAdd(SumVW(c, n - 1), FMul(c[n][1], Num(c[n][2])))

RECURSIVE SumW(_, _)
SumW(c, n) == IF n = 0 THEN 0 ELSE SumW(c, n - 1) + c[n][2]

\* The calls that returned an array.
Returned(t) == pc[t] = "done" /\ res[t].err = NoError

VoxelsOf(t) ==
    {v \in (1..Len(res[t].dst)) \X (1..NRow) \X (1..NCol) : TRUE}

\* C7: with method mean, a voxel that overlaps at least one layer of its
\* column (all of them holding a value) gets sum(value * overlap) /
\* sum(overlap) over exactly the overlapping layers.
C7_MeanIsOverlapWeighted ==
    \A t \in Threads :
        (Returned(t) /\ self.method = "mean") =>
            \A v \in VoxelsOf(t) :
                LET c == Contributions(args[t], NLayer, v[1], v[2], v[3])
                IN  (c # <<>> /\ \A n \in 1..Len(c) : ~isnan(c[n][1]))
                    => res[t].dst[v[1]][v[2]][v[3]]
                       = FDiv(SumVW(c, Len(c)), Num(SumW(c, Len(c))))

\* the example: layers of value 10, 20, .. 8 units thick from z = 0, voxel
\* edges 0, 4, 12, 16: the voxels get 10, 15, 20
C7_Witness ==
    \E t \in Threads :
        /\ Returned(t)
        /\ self.method = "mean"
        /\ given[t].source = Source("asc", "asc")
        /\ given[t].top = Top(TRUE, 0, 0)
        /\ given[t].like = VoxelLike(<<ZCoord("z", <<2, 8, 14>>), DzCoord(<<4, 8, 4>>)>>)
        /\ [ii \in 1..3 |-> res[t].dst[ii][1][1]] = <<Num(10), Num(15), Num(20)>>

Flat(a) ==
    \A l \in 1..NLayer, i \in 1..NRow, j \in 1..NCol :
        /\ a.top.values[l][i][j] = a.top.values[l][1][1]
        /\ a.bottom.values[l][i][j] = a.bottom.values[l][1][1]

SameEdges(a) ==
    {<<VoxelLo(a.like, ii), VoxelHi(a.like, ii)>> :
        ii \in 1..Len(CoordOf(a.like, "z").vals)}
    = {<<a.bottom.values[l][1][1], a.top.values[l][1][1]>> : l \in 1..NLayer}

\* C8: when tops and bottoms are the same in every column and the voxels are
\* the layers' own intervals, every voxel gets the value of the layer with its
\* interval, in every column.
C8_FlatGridReproduced ==
    \A t \in Threads :
        (Returned(t) /\ Flat(args[t]) /\ SameEdges(args[t])) =>
            \A v \in VoxelsOf(t), l \in 1..NLayer :
                (/\ args[t].bottom.values[l][v[2]][v[3]] = VoxelLo(args[t].like, v[1])
                 /\ args[t].top.values[l][v[2]][v[3]] = VoxelHi(args[t].like, v[1]))
                => res[t].dst[v[1]][v[2]][v[3]] = args[t].source.values[l][v[2]][v[3]]

\* C9: a voxel that no layer of its column overlaps is NaN in the result, and
\* the method was not called for it.
C9_NoOverlapStaysNaN ==
    \A t \in Threads :
        Returned(t) =>
            \A v \in VoxelsOf(t) :
                Overlapping(args[t], v[1], v[2], v[3]) = {}
                => /\ res[t].dst[v[1]][v[2]][v[3]] = NaN
                   /\ \A n \in 1..Len(res[t].calls) :
                        <<res[t].calls[n].ii, res[t].calls[n].i, res[t].calls[n].j>> # v

\* a result with a voxel under every layer of its column and a voxel with a value
C9_Witness ==
    \E t \in Threads :
        /\ Returned(t)
        /\ \E v \in VoxelsOf(t) :
              /\ Overlapping(args[t], v[1], v[2], v[3]) = {}
              /\ res[t].dst[v[1]][v[2]][v[3]] = NaN
        /\ \E v \in VoxelsOf(t) : ~isnan(res[t].dst[v[1]][v[2]][v[3]])

\* C10: the values and weights of every call of the method are those of the
\* layers that overlap the voxel, in layer order, and nothing else.
C10_MethodSeesOnlyOverlaps ==
    \A t \in Threads :
        Returned(t) =>
            \A n \in 1..Len(res[t].calls) :
                LET call == res[t].calls[n]
                    c == Contributions(args[t], NLayer, call.ii, call.i, call.j)
                IN  /\ call.values = [m \in 1..Len(c) |-> c[m][1]]
                    /\ call.weights = [m \in 1..Len(c) |-> c[m][2]]

\* The contributions of c whose value is not NaN.
ValidOnly(c) == SelectSeq(c, LAMBDA e : ~isnan(e[1]))

\* C11: with a method of the registry, a call on good arguments does not raise
\* whatever NaN the source holds, and a voxel that overlaps a NaN-valued layer
\* gets the method's reduction of its valid overlapping layers only, and NaN
\* when it has none.
C11_NaNLayersExcluded ==
    \A t \in Threads :
        /\ (pc[t] = "done" /\ given[t] \in GoodCalls) => res[t].err = NoError
        /\ (Returned(t) /\ self.method \in METHODS) =>
              \A v \in VoxelsOf(t) :
                  LET c == Contributions(args[t], NLayer, v[1], v[2], v[3])
                      ok == ValidOnly(c)
                  IN  (\E n \in 1..Len(c) : isnan(c[n][1]))
                      => res[t].dst[v[1]][v[2]][v[3]]
                         = IF ok = <<>> THEN NaN
                           ELSE CallMethod(self.method,
                                           [m \in 1..Len(ok) |-> ok[m][1]],
                                           [m \in 1..Len(ok) |-> ok[m][2]])
\* The dimensions of top, bottom and source, in the order they are checked.
DimsOf(a) == <<a.top.dims, a.bottom.dims, a.source.dims>>

BadDims(a) == \E n \in 1..3 : DimsOf(a)[n] # <<"layer", "y", "x">>

\* C12: a call whose top, bottom or source has dimensions other than
\* (layer, y, x) in that order ends in a raise before the plan is built or
\* run: the instance is as the call found it and no output was computed.  On
\* a template that passes its own checks the error is the ValueError of the
\* dimension check, naming the dimensions it got.
C12_BadDimensionsRaise ==
    \A t \in Threads :
        (pc[t] # "idle" /\ BadDims(given[t])) =>
            /\ pc[t] = "done"
            /\ res[t].err # NoError
            /\ res[t].dst = <<>>
            /\ res[t].calls = <<>>
            /\ self = entry[t]
            /\ given[t].like \in GoodLikes =>
                  /\ res[t].err.type = "ValueError"
                  /\ res[t].err.msg[1]
                     = "Dimensions have to be exactly layer, y, x. Got instead"
                  /\ \E n \in 1..3 :
                        /\ DimsOf(given[t])[n] # <<"layer", "y", "x">>
                        /\ SubSeq(res[t].err.msg, 2, Len(res[t].err.msg))
                           = DimsOf(given[t])[n]

\* only top has its dimensions in another order, and the call raised
C12_Witness ==
    \E t \in Threads :
        /\ pc[t] = "done"
        /\ given[t].top.dims = <<"layer", "x", "y">>
        /\ given[t].source.dims = <<"layer", "y", "x">>
        /\ given[t].bottom.dims = <<"layer", "y", "x">>
        /\ res[t].err.type = "ValueError"
        /\ self._first_call
\* The coordinates of an array as a mapping: what it holds, not the order in
\* which it stores them.
CoordSet(da) == {da.coords[n] : n \in 1..Len(da.coords)}

SameCoords(a) ==
    /\ CoordSet(a.bottom) = CoordSet(a.top)
    /\ CoordSet(a.source) = CoordSet(a.top)

\* C13: on a good template and arrays of dimensions (layer, y, x), the call
\* raises the coordinate-mismatch ValueError when bottom or source differs
\* from top in a coordinate (one that the other lacks, or one with other
\* values), and does not raise it when the three hold the same coordinates,
\* in whatever order each stores them.
C13_CoordinateMismatchRaises ==
    \A t \in Threads :
        (pc[t] = "done" /\ given[t].like \in GoodLikes /\ ~BadDims(given[t])) =>
            (res[t].err.type = "ValueError"
             /\ res[t].err.msg[1] = "Input coordinates do not match along")
            <=> ~SameCoords(given[t])
\* The template has z as a dimension (with its centres), or as a coordinate
\* on its layer dimension.
ExposesZ(like) ==
    /\ HasCoord(like, "z")
    /\ \/ InSeq("z", like.dims) /\ CoordOf(like, "z").dims = <<"z">>
       \/ InSeq("layer", like.dims) /\ CoordOf(like, "z").dims = <<"layer">>

\* The error of a template in which no z was found.
ZError(err) ==
    \/ err.type = "KeyError" /\ err.msg = <<"z">>
    \/ err.type = "ValueError" /\ err.msg = <<"z has to be given in like coordinates">>

\* C14: with good source, top and bottom, a template that has z as a
\* dimension or as a coordinate on layer is not turned down for its z, and a
\* template that has z in neither form makes the call raise a ValueError.
C14_ZDimensionOrLayerCoordinate ==
    \A t \in Threads :
        (/\ pc[t] = "done"
         /\ given[t].source = BaseSource
         /\ given[t].top = BaseTop
         /\ given[t].bottom = BaseBottom) =>
            IF ExposesZ(given[t].like)
            THEN ~ZError(res[t].err)
            ELSE res[t].err.type = "ValueError"
\* The error of line 193.
DzError(err) ==
    err.type = "ValueError" /\ err.msg = <<"dz has to be given as a coordinate">>

\* C15: for a template with z as its dimension, when it has no dz the call
\* raises the ValueError of line 193 exactly when edge inference on the same z
\* axis turns it down as not equidistant, and when it has a dz the call does
\* not raise that error.
C15_EquidistanceSameTolerance ==
    \A t \in Threads :
        (/\ pc[t] = "done"
         /\ InSeq("z", given[t].like.dims)
         /\ HasCoord(given[t].like, "z")) =>
            IF HasCoord(given[t].like, "dz")
            THEN ~DzError(res[t].err)
            ELSE DzError(res[t].err)
                 <=> _coord(LikeZ(given[t].like), "z").err.type = "ValueError"
\* The axis was given without a dx, and _coord has handled it.
Inferred == axis # NoArray /\ ~HasCoord(axis, "dx")

Accepted == axis # NoArray /\ coord.err = NoError

\* C16 as stated: for every axis whose spacing is inferred and accepted as
\* equidistant, consecutive edges are a spacing apart, the first edge is the
\* first centre less half the spacing, and every centre is the midpoint of
\* its cell.
C16_CentresAreMidpoints ==
    (Inferred /\ Accepted) =>
        LET x == axis.values
            dx == x[2] - x[1]
        IN  /\ coord.val[1] = x[1] - dx \div 2
            /\ \A i \in 1..Len(x) :
                  /\ coord.val[i + 1] - coord.val[i] = dx
                  /\ x[i] - coord.val[i] = coord.val[i + 1] - x[i]

\* C16, amended: consecutive edges are a spacing (the first difference of the
\* centres) apart and the first edge is the first centre less half the
\* spacing; centre i is off the midpoint of its cell by what it is off the
\* equidistant position x[0] + i * spacing, so it is the midpoint when the
\* centres are exactly equidistant.
C16_EdgesFromFirstDifference ==
    (Inferred /\ Accepted) =>
        LET x == axis.values
            dx == x[2] - x[1]
        IN  /\ coord.val[1] = x[1] - dx \div 2
            /\ \A i \in 1..Len(x) :
                  /\ coord.val[i + 1] - coord.val[i] = dx
                  /\ (x[i] - coord.val[i]) - (coord.val[i + 1] - x[i])
                     = 2 * (x[i] - x[1] - (i - 1) * dx)

\* an accepted axis whose differences are not all the same: its edges are a
\* first difference apart and its last centre is not the midpoint of its cell
C16_Witness ==
    /\ Inferred
    /\ Accepted
    /\ Len(axis.values) >= 3
    /\ axis.values[3] - axis.values[2] # axis.values[2] - axis.values[1]
    /\ coord.val[4] - coord.val[3] = axis.values[2] - axis.values[1]
    /\ axis.values[3] - coord.val[3] # coord.val[4] - axis.values[3]

Increasing(x) == \A n \in 1..(Len(x) - 1) : x[n] < x[n + 1]

Decreasing(x) == \A n \in 1..(Len(x) - 1) : x[n] > x[n + 1]

\* C17: an axis of n cells gets n + 1 edges, strictly increasing when its
\* (two or more) centres increase and strictly decreasing when they decrease,
\* whether the spacing was inferred or given, and whatever the sign it was
\* given with.
C17_EdgesFollowCentres ==
    Accepted =>
        /\ Len(coord.val) = Len(axis.values) + 1
        /\ Len(axis.values) >= 2 =>
              /\ Increasing(axis.values) => Increasing(coord.val)
              /\ Decreasing(axis.values) => Decreasing(coord.val)

\* increasing centres given with negative cell sizes: increasing edges
C17_Witness ==
    /\ Accepted
    /\ HasCoord(axis, "dx")
    /\ axis.values = <<0, 8, 16>>
    /\ CoordOf(axis, "dx").vals = <<-4, -4, -4>>
    /\ coord.val = <<-2, 2, 6, 10>>

\* C18: without a dx, an axis of two or more centres is accepted exactly when
\* every difference of consecutive centres is within 1e-6 times the size of
\* the first difference of the first difference; otherwise _coord raises the
\* ValueError that says the array has to be equidistant or cell sizes have to
\* be given.
C18_InferenceTolerance ==
    (Inferred /\ Len(axis.values) >= 2) =>
        LET dxs == diff(axis.values)
        IN  IF \A n \in 1..Len(dxs) :
                   Abs(dxs[n] - dxs[1]) <= Abs(dxs[1]) \div 1000000
            THEN coord.err = NoError
            ELSE /\ coord.err.type = "ValueError"
                 /\ coord.err.msg[1] = "DataArray has to be equidistant along"
                 /\ coord.err.msg[3] = "or cellsizes must be provided as a coordinate"
\* The names the class documentation lists (lines 105-108).
Documented ==
    {"mean", "harmonic_mean", "geometric_mean", "sum", "minimum", "maximum",
     "mode", "median", "max_overlap"}

\* C19: once the module is loaded its registry holds the nine documented
\* names and no other, these are the catalog less conductance, nearest and
\* multilinear, and Voxelizer(name) succeeds for exactly these names.
C19_ExactlyNineMethods ==
    voxelize_METHODS # 0 =>
        /\ registries[voxelize_METHODS] = Documented
        /\ Documented = CommonMETHODS \ Disallowed
        /\ (ctor # "none" /\ given_method.kind = "str") =>
              (ctor = "ok" <=> given_method.name \in Documented)

\* a Voxelizer made with one of the nine names
C19_Witness ==
    /\ ctor = "ok"
    /\ given_method = [kind |-> "str", name |-> "mode"]
    /\ self.method = "mode"

\* C20: the shared registry common.METHODS holds the whole catalog before and
\* after the voxelize module is loaded, conductance, nearest and multilinear
\* included, and the registry of the voxelize module is another object, which
\* does not hold these three.
C20_SharedRegistryUntouched ==
    /\ registries[1] = CommonMETHODS
    /\ voxelize_METHODS # 0 =>
          /\ voxelize_METHODS # 1
          /\ Disallowed \subseteq registries[1]
          /\ Disallowed \cap registries[voxelize_METHODS] = {}

\* the module is loaded, the Voxelizer has turned down "nearest", and the
\* shared registry still has it
C20_Witness ==
    /\ voxelize_METHODS # 0
    /\ ctor = "raised"
    /\ given_method = [kind |-> "str", name |-> "nearest"]
    /\ "nearest" \in registries[1]
\* Some whole multiple of the divisor's magnitude is within the tolerance
\* (1e-8 + 1e-5 * |divisor|) of the size's magnitude.
WholeMultiple(size, divisor) ==
    \E k \in 0..(Abs(size) \div Abs(divisor) + 1) :
        Abs(Abs(size) - k * Abs(divisor)) <= 1 + Abs(divisor) \div 100000

\* C21: is_divisor(a, b) is true exactly when every size of a is a whole
\* multiple of b within tolerance, and it is the same for (a, b), (-a, b),
\* (a, -b) and (-a, -b); it is true for ([1.0, 0.5, 0.1], 0.05) and false for
\* ([1.0, 0.5, 0.1], 0.07).
C21_IsDivisorSignInvariant ==
    divisor_test # NoDivisorTest =>
        /\ \A n \in 1..4 :
              divisor_test.results[n]
              = \A m \in 1..Len(divisor_test.a) :
                    WholeMultiple(divisor_test.a[m], divisor_test.b)
        /\ (divisor_test.a = <<100000000, 50000000, 10000000>>
            /\ divisor_test.b = 5000000)
           => divisor_test.results = <<TRUE, TRUE, TRUE, TRUE>>
        /\ (divisor_test.a = <<100000000, 50000000, 10000000>>
            /\ divisor_test.b = 7000000)
           => divisor_test.results = <<FALSE, FALSE, FALSE, FALSE>>

\* the test's second case: 0.07 does not divide [1.0, 0.5, 0.1], whatever
\* the signs
C21_Witness ==
    /\ divisor_test.a = <<100000000, 50000000, 10000000>>
    /\ divisor_test.b = 7000000
    /\ divisor_test.results = <<FALSE, FALSE, FALSE, FALSE>>
\* max(0, min(top, zt) - max(bot, zb)) for layer l of column (i, j) and
\* voxel ii
LayerWeight(a, l, ii, i, j) == Max2(0, Shared(a, l, ii, i, j))

\* C22: the weights recorded for a voxel are max(0, min(top, zt) -
\* max(bot, zb)) of the layers for which this is not 0, in layer order (the
\* slots after them are 0); the overlap is the same with the two intervals
\* exchanged, is the interval's length for a layer that coincides with the
\* voxel, and is 0, so that nothing is recorded, for a layer that is disjoint
\* from the voxel or only touches it.
C22_WeightIsOverlap ==
    \A t \in Threads :
        Returned(t) =>
            /\ \A n \in 1..Len(res[t].calls) :
                  LET call == res[t].calls[n]
                      c == Contributions(args[t], NLayer, call.ii, call.i, call.j)
                  IN  call.weights
                      = [m \in 1..NLayer |-> IF m <= Len(c) THEN c[m][2] ELSE 0]
            /\ \A v \in VoxelsOf(t), l \in 1..NLayer :
                  LET bot == args[t].bottom.values[l][v[2]][v[3]]
                      top == args[t].top.values[l][v[2]][v[3]]
                      zb == VoxelLo(args[t].like, v[1])
                      zt == VoxelHi(args[t].like, v[1])
                      w == LayerWeight(args[t], l, v[1], v[2], v[3])
                  IN  /\ _overlap(<<bot, top>>, <<zb, zt>>) = w
                      /\ _overlap(<<zb, zt>>, <<bot, top>>) = w
                      /\ (bot = zb /\ top = zt) => w = top - bot
                      /\ (top <= zb \/ bot >= zt) => w = 0
                      /\ w = 0 => l \notin Overlapping(args[t], v[1], v[2], v[3])

\* a voxel that coincides with one layer and touches another: one weight is
\* recorded, the length of the layer
C22_Witness ==
    \E t \in Threads :
        /\ Returned(t)
        /\ \E n \in 1..Len(res[t].calls) :
              LET call == res[t].calls[n]
                  zb == VoxelLo(args[t].like, call.ii)
                  zt == VoxelHi(args[t].like, call.ii)
              IN  /\ \E l \in 1..NLayer :
                        /\ args[t].bottom.values[l][call.i][call.j] = zb
                        /\ args[t].top.values[l][call.i][call.j] = zt
                        /\ call.weights[1] = zt - zb
                  /\ \E l \in 1..NLayer :
                        args[t].bottom.values[l][call.i][call.j] = zt
                  /\ \A m \in 2..NLayer : call.weights[m] = 0

\* the keys of a dictionary, in its order
Keys(d) == [n \in 1..Len(d) |-> d[n][1]]

\* the times a package variable has values for: its own and its repeated ones
PackageTimes(da) ==
    LET own == CoordOf(da, "time").vals
    IN  SortedSeq({own[n] : n \in 1..Len(own)}
                  \cup {da.timemap[n][1] : n \in 1..Len(da.timemap)})

\* the entries by layer are the wildcard alone exactly without a layer
\* coordinate, else one entry per layer value
LayerEntries(da, byLayer) ==
    /\ InSeq(Wildcard, Keys(byLayer)) <=> ~HasCoord(da, "layer")
    /\ ~HasCoord(da, "layer") => Keys(byLayer) = <<Wildcard>>
    /\ HasCoord(da, "layer") =>
           Keys(byLayer) = [n \in 1..Len(CoordOf(da, "layer").vals) |->
                               IntKey(CoordOf(da, "layer").vals[n])]

\* the entries by period are the wildcard alone exactly without a time
\* coordinate, else one entry per package time, each starting at the stress
\* period of its time
PeriodEntries(da, out) ==
    /\ out.err = NoError
    /\ InSeq(Wildcard, Keys(out.values)) <=> ~HasCoord(da, "time")
    /\ ~HasCoord(da, "time") => Keys(out.values) = <<Wildcard>>
    /\ HasCoord(da, "time") =>
           /\ Len(out.values) = Len(PackageTimes(da))
           /\ \A n \in 1..Len(out.values) :
                  LET period == searchsorted(GlobalTimes, PackageTimes(da)[n]) + 1
                  IN  Keys(out.values)[n].str[1] = Str(period)[1]

\* C23: a rendered variable is listed under the layer wildcard "?" if and
\* only if it has no layer coordinate, and otherwise under exactly one entry
\* per layer value; it is listed under the period wildcard "?" if and only if
\* it has no time coordinate, and otherwise under one entry per package time,
\* in time order.
C23_WildcardIffNoCoordinate ==
    rendered.out # NoRender.out =>
        /\ PeriodEntries(rendered.da, rendered.out)
        /\ \A p \in 1..Len(rendered.out.values) :
               LayerEntries(rendered.da, rendered.out.values[p][2])

\* voxelize on a Voxelizer just constructed with the method: the checks,
\* then the kernel with the method
FreshVoxelizer(method, a) ==
    LET v == Validate(a)
    IN  IF v.err # NoError THEN NoResult(v.err)
        ELSE RunPlan([a EXCEPT !.like = v.like], method)

ColumnAlone(a, i, j) == [l \in 1..Len(a) |-> <<<<a[l][i][j]>>>>]

\* the kernel run on column (i, j) of the sources of call t alone: its output
\* column
VoxelizedAlone(t, i, j) ==
    LET nz == Len(res[t].dst)
        k == _voxelize(ColumnAlone(args[t].source.values, i, j),
                       FullNaN(nz, 1, 1),
                       ColumnAlone(args[t].top.values, i, j),
                       ColumnAlone(args[t].bottom.values, i, j),
                       DstZ(args[t].like).val, self.method)
    IN  Column(k.dst, 1, 1)

\* C25: each (row, column) position is voxelized independently: an output
\* column depends only on the source values, tops and bottoms of the same
\* column and on the voxel edges.
C25_ColumnsAreIndependent ==
    \A t \in Threads :
        Returned(t) /\ res[t].dst # <<>> =>
            \A i \in 1..Len(res[t].dst[1]), j \in 1..Len(res[t].dst[1][1]) :
                Column(res[t].dst, i, j) = VoxelizedAlone(t, i, j)

\* a returned array of which two columns differ, the later one with a value
C25_Witness ==
    \E t \in Threads :
        /\ Returned(t) /\ res[t].dst # <<>>
        /\ \E j \in 2..Len(res[t].dst[1][1]) :
               /\ Column(res[t].dst, 1, j) # Column(res[t].dst, 1, 1)
               /\ \E ii \in 1..Len(res[t].dst) : ~isnan(res[t].dst[ii][1][j])
               /\ Column(args[t].source.values, 1, j)
                      # Column(args[t].source.values, 1, 1)

\* C26: at the start of every sweep of a voxel the two buffers are all zero,
\* whatever the previous voxel or column wrote into them.
C26_BuffersZeroAtSweepStart ==
    \A t \in Threads :
        Returned(t) =>
            \A n \in 1..Len(res[t].sweeps) :
                /\ res[t].sweeps[n].values = FZeros(Len(args[t].source.values))
                /\ res[t].sweeps[n].weights = Zeros(Len(args[t].source.values))

\* a sweep that follows a call of the method with more than one layer in the
\* buffers
C26_Witness ==
    \E t \in Threads :
        /\ Returned(t)
        /\ \E n \in 1..Len(res[t].sweeps), c \in 1..Len(res[t].calls) :
               /\ n > 1
               /\ res[t].calls[c].ii = res[t].sweeps[n - 1].ii
               /\ res[t].calls[c].i = res[t].sweeps[n - 1].i
               /\ res[t].calls[c].j = res[t].sweeps[n - 1].j
               /\ res[t].calls[c].weights[1] # 0
               /\ res[t].calls[c].weights[2] # 0

\* the call t made with the z cells of its template listed the other way
\* round, on a Voxelizer of the same method
OtherWayRound(t) ==
    FreshVoxelizer(self.method, [given[t] EXCEPT !.like = FlipZ(@)])

\* C27: voxelizing onto a template whose z decreases with index gives every z
\* cell the value that voxelizing onto the same cells in increasing order
\* gives it: the result is the reversed one, and the call ends the same way.
C27_DecreasingZIsReversed ==
    \A t \in Threads :
        (/\ pc[t] = "done"
         /\ HasCoord(given[t].like, "z")
         /\ CoordOf(given[t].like, "z").dims = <<"z">>
         /\ Len(CoordOf(given[t].like, "z").vals) > 1
         /\ Decreasing(CoordOf(given[t].like, "z").vals)) =>
            /\ res[t].err = OtherWayRound(t).err
            /\ res[t].dst = Reverse(OtherWayRound(t).dst)

\* a decreasing template of cells of unequal thickness has been voxelized,
\* and the result is not a palindrome
C27_Witness ==
    \E t \in Threads :
        /\ Returned(t)
        /\ CoordOf(given[t].like, "z").vals = <<16, 8, 2>>
        /\ res[t].dst # Reverse(res[t].dst)
        /\ \A ii \in 1..3 : ~isnan(res[t].dst[ii][1][1])

\* the cells of a (layer, y, x) array, as <<l, i, j>>
Cells(a) == {<<l, i, j>> : l \in 1..Len(a), i \in 1..Len(a[1]), j \in 1..Len(a[1][1])}

\* the cells with a finite kv_sat
ActiveCells == {c \in Cells(uzf.kv_sat) : isfinite(uzf.kv_sat[c[1]][c[2]][c[3]])}

\* c comes before d in raveled (layer, y, x) order
Before(c, d) ==
    \/ c[1] < d[1]
    \/ c[1] = d[1] /\ c[2] < d[2]
    \/ c[1] = d[1] /\ c[2] = d[2] /\ c[3] < d[3]

\* C28: every active cell (finite kv_sat, landflag 1) gets a distinct UZF
\* number, the numbers of the active cells are exactly 1..N in raveled
\* (layer, y, x) order, and every inactive cell gets number 0.
C28_UzfNumbering ==
    uzf.built = "ok" =>
        \A c \in Cells(uzf.kv_sat) :
            /\ uzf.landflag[c[1]][c[2]][c[3]] = (IF c \in ActiveCells THEN 1 ELSE 0)
            /\ uzf.iuzno[c[1]][c[2]][c[3]] =
                   IF c \in ActiveCells
                   THEN Cardinality({d \in ActiveCells : Before(d, c)}) + 1
                   ELSE 0

\* a package with active cells after an inactive one, in more than one layer
C28_Witness ==
    /\ uzf.built = "ok"
    /\ \E c \in ActiveCells, d \in ActiveCells, e \in Cells(uzf.kv_sat) \ ActiveCells :
           Before(e, c) /\ Before(c, d) /\ c[1] < d[1]

\* C29: the vertical connection of a cell is the UZF number of the cell
\* directly below it in the next layer, 0 when that cell is inactive, and 0
\* for every cell of the bottom layer.
C29_VerticalConnection ==
    uzf.built = "ok" =>
        \A c \in Cells(uzf.kv_sat) :
            LET below == <<c[1] + 1, c[2], c[3]>>
            IN  uzf.ivertcon[c[1]][c[2]][c[3]] =
                    IF c[1] = Len(uzf.kv_sat) \/ below \notin ActiveCells THEN 0
                    ELSE uzf.iuzno[below[1]][below[2]][below[3]]

\* a package with an active cell above an active one and an active cell above
\* an inactive one
C29_Witness ==
    /\ uzf.built = "ok"
    /\ \E c \in ActiveCells : <<c[1] + 1, c[2], c[3]>> \in ActiveCells
    /\ \E c \in ActiveCells :
           c[1] < Len(uzf.kv_sat) /\ <<c[1] + 1, c[2], c[3]>> \notin ActiveCells

\* how many of the arguments ns of the package are given
Given(ns) == Cardinality({n \in ns : uzf.given[n] # None})

\* the construction raises ValueError exactly when one of the two ET inputs
\* is given, some but not all of the three capillary inputs are given, or the
\* function is none of "linear", "square" and None
RaisesWhenIncomplete ==
    uzf.built = "raised" <=>
        \/ Given({2, 3}) = 1
        \/ Given({5, 6, 7}) \in {1, 2}
        \/ uzf.given[1] \notin {<<"linear">>, <<"square">>, None}

\* C30 as stated: ValueError for incomplete ET or capillary inputs or an
\* unknown function; else simulate_et only with both ET inputs, unsat_etae
\* only with all three capillary inputs, and exactly one of linear_gwet and
\* square_gwet, the one of the chosen function.
C30_ExactlyOneGwetOption ==
    uzf.built # "none" =>
        /\ uzf.built = "raised" => uzf.err.type = "ValueError"
        /\ RaisesWhenIncomplete
        /\ uzf.built = "ok" =>
               /\ "simulate_et" \in uzf.keys => Given({2, 3}) = 2
               /\ "unsat_etae" \in uzf.keys => Given({5, 6, 7}) = 3
               /\ Cardinality(uzf.keys \cap {"linear_gwet", "square_gwet"}) = 1
               /\ "linear_gwet" \in uzf.keys => uzf.given[1] = <<"linear">>
               /\ "square_gwet" \in uzf.keys => uzf.given[1] = <<"square">>

\* C30, amended: as above, but linear_gwet is set exactly for "linear",
\* square_gwet exactly for "square", and neither of them for None.
C30_GwetOptionOfFunction ==
    uzf.built # "none" =>
        /\ uzf.built = "raised" => uzf.err.type = "ValueError"
        /\ RaisesWhenIncomplete
        /\ uzf.built = "ok" =>
               /\ "simulate_et" \in uzf.keys <=> Given({2, 3}) = 2
               /\ "unsat_etae" \in uzf.keys <=> Given({5, 6, 7}) = 3
               /\ "linear_gwet" \in uzf.keys <=> uzf.given[1] = <<"linear">>
               /\ "square_gwet" \in uzf.keys <=> uzf.given[1] = <<"square">>

\* a package constructed with all ET and capillary inputs and no groundwater
\* ET function
C30_Witness ==
    /\ uzf.built = "ok"
    /\ uzf.given[1] = None
    /\ Given({2, 3}) = 2
    /\ Given({5, 6, 7}) = 3
    /\ uzf.keys = {"simulate_et", "unsat_etae"}

====
